---- MODULE Spec2Model ----
(***************************************************************************)
(* A model of ghg (src/gpp/main.py): a command-line wrapper that drives    *)
(* `git` and `gh` through fixed sequences of external commands.            *)
(*                                                                         *)
(* Text is modelled as a sequence of one-character strings, so that the    *)
(* program's string handling (regular expressions, split, strip, path      *)
(* arithmetic) is computed character by character as the code does.        *)
(***************************************************************************)
EXTENDS Integers, Sequences, FiniteSets, TLC

(***************************************************************************)
(* Bounds of the model.                                                    *)
(***************************************************************************)
MaxTitleLen == 4
MaxNum == 2
MaxChecks == 3
MaxPrs == 2
MaxLinked == 1

(***************************************************************************)
(* Character classes of Python's `re` as used by title_to_branch_name.     *)
(***************************************************************************)
UpperChars == {"A"}
LowerChars == {"a"}
DigitChars == {"1"}
SpaceChars == {" "}
SymbolChars == {"!"}
WordChars == UpperChars \cup LowerChars \cup DigitChars \cup {"_"}
TitleChars == WordChars \cup SpaceChars \cup SymbolChars \cup {"-"}

RECURSIVE StrUpTo(_, _)
StrUpTo(chars, n) ==
    IF n = 0 THEN {<<>>}
    ELSE LET shorter == StrUpTo(chars, n - 1)
         IN  shorter \cup {Append(s, c) : s \in shorter, c \in chars}

\* str.lower() on one character
LowerChar(c) == IF c = "A" THEN "a" ELSE c

\* str.lower()
Lower(s) == [i \in 1..Len(s) |-> LowerChar(s[i])]

\* re.sub(r'[^\w\s-]', '', s): delete every character outside the class
RECURSIVE RemoveSpecial(_)
RemoveSpecial(s) ==
    IF s = <<>> THEN <<>>
    ELSE IF Head(s) \in WordChars \cup SpaceChars \cup {"-"}
         THEN <<Head(s)>> \o RemoveSpecial(Tail(s))
         ELSE RemoveSpecial(Tail(s))

\* str.lstrip(chars) / str.rstrip(chars) / str.strip(chars)
RECURSIVE LStrip(_, _)
LStrip(s, chars) ==
    IF s # <<>> /\ Head(s) \in chars THEN LStrip(Tail(s), chars) ELSE s

RECURSIVE RStrip(_, _)
RStrip(s, chars) ==
    IF s # <<>> /\ s[Len(s)] \in chars
    THEN RStrip(SubSeq(s, 1, Len(s) - 1), chars)
    ELSE s

Strip(s, chars) == RStrip(LStrip(s, chars), chars)

\* str.startswith(prefix)
StartsWith(s, prefix) ==
    Len(prefix) <= Len(s) /\ SubSeq(s, 1, Len(prefix)) = prefix

\* The position of the first character of s that is in chars, 0 if none.
Find(s, chars) ==
    IF \E i \in 1..Len(s) : s[i] \in chars
    THEN CHOOSE i \in 1..Len(s) :
            s[i] \in chars /\ \A j \in 1..(i - 1) : s[j] \notin chars
    ELSE 0

\* str.split(sep): the pieces between the occurrences of sep
RECURSIVE Split(_, _)
Split(s, sep) ==
    LET i == Find(s, {sep})
    IN  IF i = 0 THEN <<s>>
        ELSE <<SubSeq(s, 1, i - 1)>> \o Split(SubSeq(s, i + 1, Len(s)), sep)

\* str.split(sep, 1)[1]: what follows the first occurrence of sep
AfterFirst(s, sep) == SubSeq(s, Find(s, {sep}) + 1, Len(s))

\* str.split()[0]: the first run of characters that are not whitespace
FirstWord(s) ==
    LET t == LStrip(s, SpaceChars)
        i == Find(t, SpaceChars)
    IN  IF i = 0 THEN t ELSE SubSeq(t, 1, i - 1)

\* seq[-1]
Last(seq) == seq[Len(seq)]

\* re.sub(r'[<chars>]+', '-', s): every maximal run of chars becomes one "-"
RECURSIVE SubRuns(_, _)
SubRuns(s, chars) ==
    IF s = <<>> THEN <<>>
    ELSE IF Head(s) \in chars
         THEN <<"-">> \o SubRuns(LStrip(s, chars), chars)
         ELSE <<Head(s)>> \o SubRuns(Tail(s), chars)

\* The hyphen-collapsing substitution left out.
KeepHyphenRuns(s) == s

\* re.sub(r'-+', '-', s)
CollapseHyphens(s) == SubRuns(s, {"-"})

title_to_branch_name(t) ==
    LET cleaned == RemoveSpecial(Lower(t))
        kebab   == SubRuns(Strip(cleaned, SpaceChars), SpaceChars \cup {"_"})
    IN  Strip(CollapseHyphens(kebab), {"-"})

(***************************************************************************)
(* State.                                                                  *)
(*   cmd    the ghg sub-command that was invoked                           *)
(*   arg    its command-line arguments and options                         *)
(*   pc     the handler's position                                         *)
(*   loc    the handler's local variables                                  *)
(*   world  the repository, file system and tools the commands act on      *)
(*   trace  the external commands issued so far, with their results        *)
(*   output what the handler has printed as its result                     *)
(*   exit   the process exit code, Running until the process ends          *)
(***************************************************************************)
VARIABLES cmd, arg, pc, loc, world, trace, output, exit

vars == <<cmd, arg, pc, loc, world, trace, output, exit>>

Running == 0 - 1

\* Exit codes an external command can return: success, generic failure,
\* and git's fatal-error code.
RetCodes == {0, 1, 128}

\* Optional[...] values: None is the empty sequence, a value v is <<v>>.
None == <<>>
Some(v) == <<v>>

\* Some texts the model uses.
S_master == <<"m", "a", "s", "t", "e", "r">>
S_merge  == <<"m", "e", "r", "g", "e">>
S_feat   == <<"f">>
S_orig   == <<"o">>
S_body   == <<"b">>
S_status == <<"M", " ", "f">>
S_c1     == <<"c", "1">>
S_c2     == <<"c", "2">>
S_c3     == <<"c", "3">>
S_new    == <<"c", "9">>

DefaultArg ==
    [ branch_name   |-> <<>>,      \* move
      title         |-> <<>>,      \* cherry, pr (message)
      merge         |-> FALSE,     \* cherry, pr
      num_commits   |-> None,      \* cherry
      body          |-> None,      \* cherry, pr
      commit        |-> FALSE,     \* pr
      pr_number     |-> <<>>,      \* merge
      branch        |-> <<>>,      \* wt create, wt delete
      new_branch    |-> TRUE,      \* wt create
      shell         |-> FALSE,     \* wt create
      force         |-> FALSE,     \* wt delete
      keep_branch   |-> FALSE,     \* wt delete
      all_worktrees |-> FALSE ]    \* wt list

DefaultLoc ==
    [ has_changes     |-> FALSE,
      stash_created   |-> FALSE,
      original_branch |-> <<>>,
      commits_to_pick |-> <<>>,
      branch_name     |-> <<>>,
      i               |-> 0,
      repo_name       |-> <<>>,
      main_worktree   |-> None,
      worktree_path   |-> None,
      stdout          |-> <<>> ]

DefaultWorld ==
    [ is_repo  |-> TRUE,                 \* ./.git exists
      gh       |-> TRUE,                 \* `gh` is on the PATH
      dirty    |-> FALSE,                \* the working tree has changes
      stash    |-> 0,                    \* entries on the stash
      current  |-> S_orig,               \* the branch checked out
      branches |-> {S_master, S_orig},   \* local branches
      history  |-> <<S_c1, S_c2, S_c3>>, \* commits of HEAD, oldest first
      picked   |-> <<>>,                 \* commits cherry-picked, in order
      gh_stdout |-> "json",              \* what `gh pr list --json` prints
      prs      |-> <<>>,                 \* the pull requests it describes
      origin   |-> None,                 \* the URL of the remote `origin`
      cwd      |-> <<>>,                 \* the working directory
      worktrees |-> <<>>,                \* the worktrees, the main one first
      dirs     |-> {},                   \* other directories that exist
      files    |-> {},                   \* the .envrc files that exist
      tracked  |-> FALSE,                \* .envrc is under version control
      symlinks |-> {},                   \* the symbolic links created
      removed  |-> {},                   \* the worktrees removed
      started_on |-> S_orig              \* the branch checked out at the start
    ]

\* run_git_command / subprocess.run: the command is issued and its result
\* recorded.
Issued(c, a, rc, stdout) ==
    Append(trace, [cmd |-> c, args |-> a, rc |-> rc, stdout |-> stdout])

\* raise typer.Exit(code), or falling off the end of the handler (code 0)
Exit(code) ==
    /\ exit' = code
    /\ pc' = "done"

Goto(p) ==
    /\ pc' = p
    /\ UNCHANGED exit

\* The failure check is skipped.
NeverFailed(rc) == FALSE

\* `if exit_code != 0:` / `if result.returncode != 0:`
Failed(rc) == rc # 0

\* The first step of each handler after check_git_repo().
FirstStep(c) ==
    CASE c = "move"   -> "move_status"
      [] c = "cherry" -> "which_gh"
      [] c = "diff"   -> "diff_status"
      [] c = "branch" -> "branch_for_each_ref"
      [] c = "merge"  -> "which_gh"
      [] c = "list"   -> "which_gh"
      [] c = "pr"     -> "which_gh"
      [] c = "wt_create" -> "wt_create_repo_name"
      [] c = "wt_delete" -> "wt_delete_find"
      [] c = "wt_list"   -> "wt_list_list"
      [] OTHER      -> "done"

\* check_git_repo(): every handler starts with it.
check_git_repo ==
    /\ pc = "start"
    /\ IF ~world.is_repo
       THEN Exit(1)
       ELSE Goto(FirstStep(cmd))
    /\ UNCHANGED <<cmd, arg, loc, world, trace, output>>

\* The first step of each handler after the `shutil.which("gh")` check.
AfterGh(c) ==
    CASE c = "cherry" -> "cherry_rev_parse"
      [] c = "merge"  -> "merge_pr_edit"
      [] c = "list"   -> "list_pr_list"
      [] c = "pr"     -> IF arg.commit THEN "pr_status" ELSE "pr_rev_parse"
      [] OTHER        -> "done"

\* `if shutil.which("gh") is None:`
which_gh ==
    /\ pc = "which_gh"
    /\ IF ~world.gh
       THEN Exit(1)
       ELSE Goto(AfterGh(cmd))
    /\ UNCHANGED <<cmd, arg, loc, world, trace, output>>

(***************************************************************************)
(* move(branch_name)                                                       *)
(***************************************************************************)
move_status ==
    /\ pc = "move_status"
    /\ \E rc \in RetCodes :
        LET stdout == IF rc = 0 /\ world.dirty THEN <<S_status>> ELSE <<>>
        IN  /\ trace' = Issued("git status --porcelain", <<>>, rc, stdout)
            /\ IF Failed(rc)
               THEN Exit(1) /\ UNCHANGED loc
               ELSE /\ loc' = [loc EXCEPT !.has_changes = (stdout # <<>>),
                                          !.stash_created = FALSE]
                    /\ Goto(IF stdout # <<>> THEN "move_stash_push"
                                              ELSE "move_checkout_master")
    /\ UNCHANGED <<cmd, arg, world, output>>

move_stash_push ==
    /\ pc = "move_stash_push"
    /\ \E rc \in RetCodes :
        /\ trace' = Issued("git stash push", <<arg.branch_name>>, rc, <<>>)
        /\ IF Failed(rc)
           THEN Exit(1) /\ UNCHANGED <<loc, world>>
           ELSE /\ loc' = [loc EXCEPT !.stash_created = TRUE]
                /\ world' = [world EXCEPT !.stash = @ + 1, !.dirty = FALSE]
                /\ Goto("move_checkout_master")
    /\ UNCHANGED <<cmd, arg, output>>

move_checkout_master ==
    /\ pc = "move_checkout_master"
    /\ \E rc \in RetCodes :
        /\ trace' = Issued("git checkout", <<S_master>>, rc, <<>>)
        /\ IF Failed(rc)
           THEN Exit(1) /\ UNCHANGED world
           ELSE /\ world' = [world EXCEPT !.current = S_master]
                /\ Goto("move_pull")
    /\ UNCHANGED <<cmd, arg, loc, output>>

move_pull ==
    /\ pc = "move_pull"
    /\ \E rc \in RetCodes :
        /\ trace' = Issued("git pull origin", <<S_master>>, rc, <<>>)
        /\ IF Failed(rc)
           THEN Exit(1)
           ELSE Goto("move_checkout_b")
    /\ UNCHANGED <<cmd, arg, loc, world, output>>

\* The stash is re-applied whether or not one was created.
move_apply_always(stash_created) == TRUE

\* `if stash_created:`
move_apply_stash(stash_created) == stash_created

move_checkout_b ==
    /\ pc = "move_checkout_b"
    /\ \E rc \in RetCodes :
        /\ trace' = Issued("git checkout -b", <<arg.branch_name>>, rc, <<>>)
        /\ IF Failed(rc)
           THEN Exit(1) /\ UNCHANGED world
           ELSE /\ world' = [world EXCEPT
                                !.branches = @ \cup {arg.branch_name},
                                !.current = arg.branch_name]
                /\ IF move_apply_stash(loc.stash_created)
                   THEN Goto("move_stash_pop")
                   ELSE Exit(0)
    /\ UNCHANGED <<cmd, arg, loc, output>>

move_stash_pop ==
    /\ pc = "move_stash_pop"
    /\ \E rc \in RetCodes :
        /\ trace' = Issued("git stash pop", <<>>, rc, <<>>)
        /\ IF Failed(rc)
           THEN Exit(1) /\ UNCHANGED world
           ELSE /\ world' = [world EXCEPT !.stash = @ - 1, !.dirty = TRUE]
                /\ Exit(0)
    /\ UNCHANGED <<cmd, arg, loc, output>>

move ==
    \/ move_status
    \/ move_stash_push
    \/ move_checkout_master
    \/ move_pull
    \/ move_checkout_b
    \/ move_stash_pop

InitMove ==
    /\ cmd = "move"
    /\ \E b \in {S_feat, S_master} : arg = [DefaultArg EXCEPT !.branch_name = b]
    /\ \E r, d \in BOOLEAN :
         world = [DefaultWorld EXCEPT !.is_repo = r, !.dirty = d]

(***************************************************************************)
(* cherry(title, merge, num_commits, body)                                 *)
(***************************************************************************)
cherry_rev_parse ==
    /\ pc = "cherry_rev_parse"
    /\ \E rc \in RetCodes :
        LET stdout == IF rc = 0 THEN <<world.current>> ELSE <<>>
        IN  /\ trace' = Issued("git rev-parse --abbrev-ref HEAD", <<>>, rc, stdout)
            /\ IF Failed(rc)
               THEN Exit(1) /\ UNCHANGED loc
               ELSE /\ loc' = [loc EXCEPT !.original_branch = stdout[1]]
                    /\ Goto("cherry_status")
    /\ UNCHANGED <<cmd, arg, world, output>>

\* The -n option is accepted whatever the state of the working tree.
cherry_rejects_never(num_commits, has_unstaged_changes) == FALSE

\* `if num_commits is not None and has_unstaged_changes:`
cherry_rejects(num_commits, has_unstaged_changes) ==
    num_commits # None /\ has_unstaged_changes

cherry_status ==
    /\ pc = "cherry_status"
    /\ \E rc \in RetCodes :
        LET stdout == IF rc = 0 /\ world.dirty THEN <<S_status>> ELSE <<>>
            has_unstaged_changes == stdout # <<>>
        IN  /\ trace' = Issued("git status --porcelain", <<>>, rc, stdout)
            /\ IF Failed(rc)
               THEN Exit(1) /\ UNCHANGED loc
               ELSE /\ loc' = [loc EXCEPT !.has_changes = has_unstaged_changes,
                                          !.commits_to_pick = <<>>]
                    /\ IF cherry_rejects(arg.num_commits, has_unstaged_changes)
                       THEN Exit(1)
                       ELSE Goto(IF has_unstaged_changes THEN "cherry_add"
                                                         ELSE "cherry_rev_list")
    /\ UNCHANGED <<cmd, arg, world, output>>

cherry_add ==
    /\ pc = "cherry_add"
    /\ \E rc \in RetCodes :
        /\ trace' = Issued("git add -A", <<>>, rc, <<>>)
        /\ IF Failed(rc)
           THEN Exit(1)
           ELSE Goto("cherry_commit")
    /\ UNCHANGED <<cmd, arg, loc, world, output>>

cherry_commit ==
    /\ pc = "cherry_commit"
    /\ \E rc \in RetCodes :
        /\ trace' = Issued("git commit -m", <<arg.title>>, rc, <<>>)
        /\ IF Failed(rc)
           THEN Exit(1) /\ UNCHANGED world
           ELSE /\ world' = [world EXCEPT !.history = Append(@, S_new),
                                          !.dirty = FALSE]
                /\ Goto("cherry_rev_parse_head")
    /\ UNCHANGED <<cmd, arg, loc, output>>

cherry_rev_parse_head ==
    /\ pc = "cherry_rev_parse_head"
    /\ \E rc \in RetCodes :
        LET stdout == IF rc = 0 THEN <<world.history[Len(world.history)]>>
                                ELSE <<>>
        IN  /\ trace' = Issued("git rev-parse HEAD", <<>>, rc, stdout)
            /\ IF Failed(rc)
               THEN Exit(1) /\ UNCHANGED loc
               ELSE /\ loc' = [loc EXCEPT !.commits_to_pick = <<stdout[1]>>]
                    /\ Goto("cherry_checkout_master")
    /\ UNCHANGED <<cmd, arg, world, output>>

\* `num_commits if num_commits is not None else 1`
num_to_get(num_commits) == IF num_commits # None THEN num_commits[1] ELSE 1

\* The last k commits of a history, oldest first.
LastCommits(history, k) ==
    SubSeq(history, Len(history) - k + 1, Len(history))

\* git rev-list --reverse HEAD~n..HEAD prints the commits of the range
\* oldest first; how many there are depends on the shape of the history.
cherry_rev_list ==
    /\ pc = "cherry_rev_list"
    /\ \E rc \in RetCodes, k \in 0..Len(world.history) :
        LET stdout == IF rc = 0 THEN LastCommits(world.history, k) ELSE <<>>
        IN  /\ rc # 0 => k = 0
            /\ trace' = Issued("git rev-list --reverse", <<>>, rc, stdout)
            /\ IF Failed(rc)
               THEN Exit(1) /\ UNCHANGED loc
               ELSE /\ loc' = [loc EXCEPT !.commits_to_pick = stdout]
                    /\ IF Len(stdout) # num_to_get(arg.num_commits)
                       THEN Exit(1)
                       ELSE Goto("cherry_checkout_master")
    /\ UNCHANGED <<cmd, arg, world, output>>

cherry_checkout_master ==
    /\ pc = "cherry_checkout_master"
    /\ \E rc \in RetCodes :
        /\ trace' = Issued("git checkout", <<S_master>>, rc, <<>>)
        /\ IF Failed(rc)
           THEN Exit(1) /\ UNCHANGED world
           ELSE /\ world' = [world EXCEPT !.current = S_master]
                /\ Goto("cherry_pull")
    /\ UNCHANGED <<cmd, arg, loc, output>>

cherry_pull ==
    /\ pc = "cherry_pull"
    /\ \E rc \in RetCodes :
        /\ trace' = Issued("git pull origin", <<S_master>>, rc, <<>>)
        /\ IF Failed(rc)
           THEN Exit(1)
           ELSE Goto("cherry_checkout_b")
    /\ UNCHANGED <<cmd, arg, loc, world, output>>

cherry_checkout_b ==
    /\ pc = "cherry_checkout_b"
    /\ \E rc \in RetCodes :
        LET branch_name == title_to_branch_name(arg.title)
        IN  /\ trace' = Issued("git checkout -b", <<branch_name>>, rc, <<>>)
            /\ loc' = [loc EXCEPT !.branch_name = branch_name, !.i = 1]
            /\ IF Failed(rc)
               THEN Exit(1) /\ UNCHANGED world
               ELSE /\ world' = [world EXCEPT !.branches = @ \cup {branch_name},
                                              !.current = branch_name]
                    /\ Goto(IF loc.commits_to_pick = <<>> THEN "cherry_push"
                                                          ELSE "cherry_pick")
    /\ UNCHANGED <<cmd, arg, output>>

\* The commits are taken newest first.
cherry_commit_reversed(commits_to_pick, i) ==
    commits_to_pick[Len(commits_to_pick) - i + 1]

\* `for i, commit_hash in enumerate(commits_to_pick, 1):`
cherry_commit_hash(commits_to_pick, i) == commits_to_pick[i]

cherry_pick ==
    /\ pc = "cherry_pick"
    /\ \E rc \in RetCodes :
        LET commit_hash == cherry_commit_hash(loc.commits_to_pick, loc.i)
        IN  /\ trace' = Issued("git cherry-pick", <<commit_hash>>, rc, <<>>)
            /\ IF Failed(rc)
               THEN Exit(1) /\ UNCHANGED <<loc, world>>
               ELSE /\ world' = [world EXCEPT !.picked = Append(@, commit_hash)]
                    /\ loc' = [loc EXCEPT !.i = @ + 1]
                    /\ Goto(IF loc.i = Len(loc.commits_to_pick)
                            THEN "cherry_push" ELSE "cherry_pick")
    /\ UNCHANGED <<cmd, arg, output>>

cherry_push ==
    /\ pc = "cherry_push"
    /\ \E rc \in RetCodes :
        /\ trace' = Issued("git push -u origin", <<loc.branch_name>>, rc, <<>>)
        /\ IF Failed(rc)
           THEN Exit(1)
           ELSE Goto("cherry_pr_create")
    /\ UNCHANGED <<cmd, arg, loc, world, output>>

\* The label is added whether or not the merge flag is set.
pr_cmd_always_labelled(title, body, merge) ==
    <<title, IF body # None THEN body[1] ELSE title, S_merge>>

\* `pr_cmd`: the title, the body (the title when no body is given) and the
\* label when the merge flag is set.
pr_cmd(title, body, merge) ==
    <<title, IF body # None THEN body[1] ELSE title>>
        \o (IF merge THEN <<S_merge>> ELSE <<>>)

\* gh pr create streams to the terminal; its exit code is passed on.
cherry_pr_create ==
    /\ pc = "cherry_pr_create"
    /\ \E rc \in RetCodes :
        /\ trace' = Issued("gh pr create",
                           pr_cmd(arg.title, arg.body, arg.merge), rc, <<>>)
        /\ IF Failed(rc)
           THEN Exit(rc)
           ELSE Goto("cherry_checkout_original")
    /\ UNCHANGED <<cmd, arg, loc, world, output>>

cherry_checkout_original ==
    /\ pc = "cherry_checkout_original"
    /\ \E rc \in RetCodes :
        /\ trace' = Issued("git checkout", <<loc.original_branch>>, rc, <<>>)
        /\ IF Failed(rc)
           THEN Exit(1) /\ UNCHANGED world
           ELSE /\ world' = [world EXCEPT !.current = loc.original_branch]
                /\ Exit(0)
    /\ UNCHANGED <<cmd, arg, loc, output>>

cherry ==
    \/ cherry_rev_parse
    \/ cherry_status
    \/ cherry_add
    \/ cherry_commit
    \/ cherry_rev_parse_head
    \/ cherry_rev_list
    \/ cherry_checkout_master
    \/ cherry_pull
    \/ cherry_checkout_b
    \/ cherry_pick
    \/ cherry_push
    \/ cherry_pr_create
    \/ cherry_checkout_original

S_title1 == <<"A", " ", "a">>
S_title2 == <<"!">>

InitCherry ==
    /\ cmd = "cherry"
    /\ \E t \in {S_title1, S_title2}, m \in BOOLEAN,
          n \in {None} \cup {Some(k) : k \in 0..MaxNum},
          b \in {None, Some(S_body)} :
         arg = [DefaultArg EXCEPT !.title = t, !.merge = m,
                                  !.num_commits = n, !.body = b]
    /\ \E r, g, d \in BOOLEAN, c \in {S_orig, S_master} :
         world = [DefaultWorld EXCEPT !.is_repo = r, !.gh = g, !.dirty = d,
                                      !.current = c, !.started_on = c]

(***************************************************************************)
(* diff()                                                                  *)
(***************************************************************************)
diff_status ==
    /\ pc = "diff_status"
    /\ \E rc \in RetCodes :
        LET stdout == IF rc = 0 /\ world.dirty THEN <<S_status>> ELSE <<>>
        IN  /\ trace' = Issued("git status --porcelain", <<>>, rc, stdout)
            /\ IF Failed(rc)
               THEN Exit(1) /\ UNCHANGED loc
               ELSE /\ loc' = [loc EXCEPT !.has_changes = (stdout # <<>>)]
                    /\ Goto("diff_git_diff")
    /\ UNCHANGED <<cmd, arg, world, output>>

\* git diff streams to the terminal; its exit code is passed on.
diff_git_diff ==
    /\ pc = "diff_git_diff"
    /\ \E rc \in RetCodes :
        /\ trace' = Issued(IF loc.has_changes THEN "git diff"
                                              ELSE "git diff master...HEAD",
                           <<>>, rc, <<>>)
        /\ IF Failed(rc)
           THEN Exit(rc)
           ELSE Exit(0)
    /\ UNCHANGED <<cmd, arg, loc, world, output>>

diff ==
    \/ diff_status
    \/ diff_git_diff

InitDiff ==
    /\ cmd = "diff"
    /\ arg = DefaultArg
    /\ \E r, d \in BOOLEAN :
         world = [DefaultWorld EXCEPT !.is_repo = r, !.dirty = d]

(***************************************************************************)
(* branch()                                                                *)
(***************************************************************************)
\* The exit code a handler ends with when `git for-each-ref` or
\* `gh pr list` fails: `raise typer.Exit(exit_code)`.
query_exit(exit_code) == exit_code

\* One line per branch, "<name>|<relative date>"; each becomes a table row.
branch_for_each_ref ==
    /\ pc = "branch_for_each_ref"
    /\ \E rc \in RetCodes, found \in BOOLEAN :
        LET stdout == IF rc = 0 /\ found
                      THEN <<world.current \o <<"|">> \o <<"1", "d">>>>
                      ELSE <<>>
        IN  /\ rc # 0 => ~found
            /\ trace' = Issued("git for-each-ref", <<>>, rc, stdout)
            /\ IF Failed(rc)
               THEN Exit(query_exit(rc)) /\ UNCHANGED output
               ELSE /\ output' = stdout
                    /\ Exit(0)
    /\ UNCHANGED <<cmd, arg, loc, world>>

InitBranch ==
    /\ cmd = "branch"
    /\ arg = DefaultArg
    /\ \E r \in BOOLEAN : world = [DefaultWorld EXCEPT !.is_repo = r]

(***************************************************************************)
(* merge(pr_number)                                                        *)
(***************************************************************************)
\* `if pr_number.startswith("#"): pr_number = pr_number[1:]`
strip_hash(pr_number) ==
    IF pr_number # <<>> /\ Head(pr_number) = "#" THEN Tail(pr_number)
                                                  ELSE pr_number

\* gh pr edit streams to the terminal; its exit code is passed on.
merge_pr_edit ==
    /\ pc = "merge_pr_edit"
    /\ \E rc \in RetCodes :
        /\ trace' = Issued("gh pr edit --add-label merge",
                           <<strip_hash(arg.pr_number)>>, rc, <<>>)
        /\ IF Failed(rc)
           THEN Exit(rc)
           ELSE Exit(0)
    /\ UNCHANGED <<cmd, arg, loc, world, output>>

InitMerge ==
    /\ cmd = "merge"
    /\ \E n \in {<<"7">>, <<"#", "7">>, <<"#", "#", "7">>} :
          arg = [DefaultArg EXCEPT !.pr_number = n]
    /\ \E r, g \in BOOLEAN :
          world = [DefaultWorld EXCEPT !.is_repo = r, !.gh = g]

(***************************************************************************)
(* list_prs(author)                                                        *)
(*                                                                         *)
(* An entry of statusCheckRollup is a record with the fields gh prints:    *)
(* __typename, and conclusion and status (CheckRun) or state               *)
(* (StatusContext).                                                        *)
(***************************************************************************)
\* str.upper() on the words that occur as conclusions and states
Upper(w) ==
    CASE w = "success" -> "SUCCESS"
      [] w = "failure" -> "FAILURE"
      [] w = "pending" -> "PENDING"
      [] w = "skipped" -> "SKIPPED"
      [] OTHER         -> w

CheckRuns ==
    [ typename   : {"CheckRun"},
      conclusion : {"SUCCESS", "FAILURE", "SKIPPED", "", "failure"},
      status     : {"COMPLETED", "IN_PROGRESS"},
      state      : {""} ]

StatusContexts ==
    [ typename   : {"StatusContext"},
      conclusion : {""},
      status     : {""},
      state      : {"SUCCESS", "FAILURE", "PENDING", "ERROR"} ]

Checks == CheckRuns \cup StatusContexts

NoCounts == [success |-> 0, failure |-> 0, pending |-> 0, skipped |-> 0]

\* The body of `for check in status_rollup:` applied to the counts so far.
count_check(counts, check) ==
    IF check.typename = "CheckRun"
    THEN LET conclusion == Upper(check.conclusion)
         IN  IF conclusion = "SUCCESS"
             THEN [counts EXCEPT !.success = @ + 1]
             ELSE IF conclusion = "FAILURE"
             THEN [counts EXCEPT !.failure = @ + 1]
             ELSE IF conclusion = "SKIPPED"
             THEN [counts EXCEPT !.skipped = @ + 1]
             ELSE IF check.status = "IN_PROGRESS"
             THEN [counts EXCEPT !.pending = @ + 1]
             ELSE counts
    ELSE IF check.typename = "StatusContext"
    THEN LET state == Upper(check.state)
         IN  IF state = "SUCCESS"
             THEN [counts EXCEPT !.success = @ + 1]
             ELSE IF state = "FAILURE"
             THEN [counts EXCEPT !.failure = @ + 1]
             ELSE IF state = "PENDING"
             THEN [counts EXCEPT !.pending = @ + 1]
             ELSE counts
    ELSE counts

RECURSIVE count_checks(_, _)
count_checks(counts, status_rollup) ==
    IF status_rollup = <<>> THEN counts
    ELSE count_checks(count_check(counts, Head(status_rollup)),
                      Tail(status_rollup))

Summary(n, total, word) == [n |-> n, total |-> total, word |-> word]

\* Pending checks are reported before failed ones.
format_status_pending_first(counts, total_checks) ==
    IF counts.pending > 0
    THEN Summary(counts.pending, total_checks, "pending")
    ELSE IF counts.failure > 0
    THEN Summary(counts.failure, total_checks, "failed")
    ELSE IF counts.success > 0
    THEN Summary(counts.success, total_checks, "passed")
    ELSE Summary(counts.skipped, total_checks, "skipped")

\* `# Format status summary`
format_status(counts, total_checks) ==
    IF counts.failure > 0
    THEN Summary(counts.failure, total_checks, "failed")
    ELSE IF counts.pending > 0
    THEN Summary(counts.pending, total_checks, "pending")
    ELSE IF counts.success > 0
    THEN Summary(counts.success, total_checks, "passed")
    ELSE Summary(counts.skipped, total_checks, "skipped")

\* `pr.get("statusCheckRollup", [])`: the key may be absent (None here).
check_status(pr) ==
    LET status_rollup == IF pr = None THEN <<>> ELSE pr[1]
    IN  IF status_rollup = <<>>
        THEN Summary(0, 0, "No checks")
        ELSE format_status(count_checks(NoCounts, status_rollup),
                           Len(status_rollup))

\* gh pr list is captured; the table has one row per pull request.
list_pr_list ==
    /\ pc = "list_pr_list"
    /\ \E rc \in RetCodes :
        /\ trace' = Issued("gh pr list", <<>>, rc, <<>>)
        /\ IF Failed(rc)
           THEN Exit(query_exit(rc)) /\ UNCHANGED output
           ELSE IF world.gh_stdout = "empty"
           THEN Exit(0) /\ UNCHANGED output
           ELSE IF world.gh_stdout = "invalid"
           THEN Exit(1) /\ UNCHANGED output
           ELSE /\ output' = [i \in 1..Len(world.prs) |->
                                 check_status(world.prs[i])]
                /\ Exit(0)
    /\ UNCHANGED <<cmd, arg, loc, world>>

RECURSIVE SeqsUpTo(_, _)
SeqsUpTo(S, n) ==
    IF n = 0 THEN {<<>>}
    ELSE LET shorter == SeqsUpTo(S, n - 1)
         IN  shorter \cup {Append(s, x) : s \in shorter, x \in S}

Check(typename, conclusion, status, state) ==
    [typename |-> typename, conclusion |-> conclusion,
     status |-> status, state |-> state]

SomeRollups ==
    { None,
      Some(<<>>),
      Some(<<Check("CheckRun", "SUCCESS", "COMPLETED", ""),
             Check("CheckRun", "FAILURE", "COMPLETED", ""),
             Check("StatusContext", "", "", "PENDING")>>),
      Some(<<Check("CheckRun", "SKIPPED", "COMPLETED", "")>>) }

InitList ==
    /\ cmd = "list"
    /\ arg = DefaultArg
    /\ \E r, g \in BOOLEAN, o \in {"empty", "invalid", "json"},
          prs \in SeqsUpTo(SomeRollups, MaxPrs) :
          /\ o # "json" => prs = <<>>
          /\ world = [DefaultWorld EXCEPT !.is_repo = r, !.gh = g,
                                          !.gh_stdout = o, !.prs = prs]

(***************************************************************************)
(* pr_default(message, commit, merge, body)                                *)
(***************************************************************************)
pr_status ==
    /\ pc = "pr_status"
    /\ \E rc \in RetCodes :
        LET stdout == IF rc = 0 /\ world.dirty THEN <<S_status>> ELSE <<>>
        IN  /\ trace' = Issued("git status --porcelain", <<>>, rc, stdout)
            /\ IF Failed(rc)
               THEN Exit(1)
               ELSE Goto(IF stdout # <<>> THEN "pr_add" ELSE "pr_rev_parse")
    /\ UNCHANGED <<cmd, arg, loc, world, output>>

pr_add ==
    /\ pc = "pr_add"
    /\ \E rc \in RetCodes :
        /\ trace' = Issued("git add -A", <<>>, rc, <<>>)
        /\ IF Failed(rc)
           THEN Exit(1)
           ELSE Goto("pr_commit")
    /\ UNCHANGED <<cmd, arg, loc, world, output>>

pr_commit ==
    /\ pc = "pr_commit"
    /\ \E rc \in RetCodes :
        /\ trace' = Issued("git commit -m", <<arg.title>>, rc, <<>>)
        /\ IF Failed(rc)
           THEN Exit(1) /\ UNCHANGED world
           ELSE /\ world' = [world EXCEPT !.history = Append(@, S_new),
                                          !.dirty = FALSE]
                /\ Goto("pr_rev_parse")
    /\ UNCHANGED <<cmd, arg, loc, output>>

pr_rev_parse ==
    /\ pc = "pr_rev_parse"
    /\ \E rc \in RetCodes :
        LET stdout == IF rc = 0 THEN <<world.current>> ELSE <<>>
        IN  /\ trace' = Issued("git rev-parse --abbrev-ref HEAD", <<>>, rc, stdout)
            /\ IF Failed(rc)
               THEN Exit(1) /\ UNCHANGED loc
               ELSE /\ loc' = [loc EXCEPT !.branch_name = stdout[1]]
                    /\ Goto("pr_remote")
    /\ UNCHANGED <<cmd, arg, world, output>>

pr_remote ==
    /\ pc = "pr_remote"
    /\ \E rc \in RetCodes :
        /\ trace' = Issued("git remote get-url origin", <<>>, rc, <<>>)
        /\ IF Failed(rc)
           THEN Exit(1)
           ELSE Goto("pr_push")
    /\ UNCHANGED <<cmd, arg, loc, world, output>>

pr_push ==
    /\ pc = "pr_push"
    /\ \E rc \in RetCodes :
        /\ trace' = Issued("git push -u origin", <<loc.branch_name>>, rc, <<>>)
        /\ IF Failed(rc)
           THEN Exit(1)
           ELSE Goto("pr_create")
    /\ UNCHANGED <<cmd, arg, loc, world, output>>

\* gh pr create streams to the terminal; its exit code is passed on.
pr_create ==
    /\ pc = "pr_create"
    /\ \E rc \in RetCodes :
        /\ trace' = Issued("gh pr create",
                           pr_cmd(arg.title, arg.body, arg.merge), rc, <<>>)
        /\ IF Failed(rc)
           THEN Exit(rc)
           ELSE Exit(0)
    /\ UNCHANGED <<cmd, arg, loc, world, output>>

pr_default ==
    \/ pr_status
    \/ pr_add
    \/ pr_commit
    \/ pr_rev_parse
    \/ pr_remote
    \/ pr_push
    \/ pr_create

InitPr ==
    /\ cmd = "pr"
    /\ \E c, m \in BOOLEAN, b \in {None, Some(S_body)} :
          arg = [DefaultArg EXCEPT !.title = S_title1, !.commit = c,
                                   !.merge = m, !.body = b]
    /\ \E r, g, d \in BOOLEAN :
          world = [DefaultWorld EXCEPT !.is_repo = r, !.gh = g, !.dirty = d]

(***************************************************************************)
(* Paths (pathlib.Path): the anchor ("/" for an absolute path) and the     *)
(* components; empty and "." components are dropped when a path is built.  *)
(***************************************************************************)
Path(text) ==
    [ anchor |-> IF StartsWith(text, <<"/">>) THEN "/" ELSE "",
      parts  |-> SelectSeq(Split(text, "/"),
                           LAMBDA c : c # <<>> /\ c # <<".">>) ]

\* Path.parent
Parent(p) ==
    IF p.parts = <<>> THEN p
    ELSE [p EXCEPT !.parts = SubSeq(@, 1, Len(@) - 1)]

\* Path.name
Name(p) == IF p.parts = <<>> THEN <<>> ELSE Last(p.parts)

\* p / text
Join(p, text) ==
    IF StartsWith(text, <<"/">>) THEN Path(text)
    ELSE [p EXCEPT !.parts = @ \o Path(text).parts]

RECURSIVE JoinParts(_)
JoinParts(parts) ==
    IF parts = <<>> THEN <<>>
    ELSE IF Len(parts) = 1 THEN parts[1]
    ELSE parts[1] \o <<"/">> \o JoinParts(Tail(parts))

\* str(p)
PathStr(p) ==
    IF p.anchor = "/" THEN <<"/">> \o JoinParts(p.parts)
    ELSE IF p.parts = <<>> THEN <<".">>
    ELSE JoinParts(p.parts)

T_envrc    == <<".", "e", "n", "v", "r", "c">>
T_worktree == <<"w", "o", "r", "k", "t", "r", "e", "e", " ">>
T_branch   == <<"b", "r", "a", "n", "c", "h", " ">>
T_heads    == <<"r", "e", "f", "s", "/", "h", "e", "a", "d", "s", "/">>
T_HEAD     == <<"H", "E", "A", "D", " ">>
T_sha      == <<"a", "1">>

\* What `git worktree list --porcelain` prints, as lines: a block of three
\* lines per worktree, blocks separated by an empty line.
RECURSIVE PorcelainLines(_)
PorcelainLines(worktrees) ==
    IF worktrees = <<>> THEN <<>>
    ELSE LET w == Head(worktrees)
         IN  << T_worktree \o w.path,
                T_HEAD \o T_sha,
                T_branch \o T_heads \o w.branch >>
             \o (IF Len(worktrees) > 1 THEN << <<>> >> ELSE <<>>)
             \o PorcelainLines(Tail(worktrees))

\* What `git worktree list` prints: "<path>  <sha> [<branch>]" per worktree.
ListLines(worktrees) ==
    [ i \in 1..Len(worktrees) |->
        worktrees[i].path \o <<" ", " ">> \o T_sha \o <<" ", "[">>
            \o worktrees[i].branch \o <<"]">> ]

\* Path.exists() of a directory
Exists(w, p) ==
    \/ p \in w.dirs
    \/ \E i \in 1..Len(w.worktrees) : Path(w.worktrees[i].path) = p

\* The characters str.rstrip(".git") removes from the end.
DotGitChars == {".", "g", "i", "t"}

\* get_repo_name(), given the result of `git remote get-url origin`
get_repo_name(exit_code, stdout, cwd) ==
    IF exit_code = 0 /\ stdout # <<>>
    THEN Last(Split(RStrip(stdout, DotGitChars), "/"))
    ELSE Name(cwd)

\* get_main_worktree(), given the result of
\* `git worktree list --porcelain` as lines
RECURSIVE first_worktree(_, _)
first_worktree(lines, cwd) ==
    IF lines = <<>> THEN cwd
    ELSE IF StartsWith(Head(lines), T_worktree)
    THEN Path(AfterFirst(Head(lines), " "))
    ELSE first_worktree(Tail(lines), cwd)

get_main_worktree(exit_code, stdout, cwd) ==
    IF exit_code = 0 /\ stdout # <<>> THEN first_worktree(stdout, cwd)
                                      ELSE cwd

\* The results of the two queries in the world w.
OriginResults(w) ==
    IF w.origin = None
    THEN {[rc |-> rc, stdout |-> <<>>] : rc \in RetCodes \ {0}}
    ELSE {[rc |-> rc, stdout |-> IF rc = 0 THEN w.origin[1] ELSE <<>>] :
             rc \in RetCodes}

PorcelainResults(w) ==
    {[rc |-> rc,
      stdout |-> IF rc = 0 THEN PorcelainLines(w.worktrees) ELSE <<>>] :
        rc \in RetCodes}

\* The repositories the worktree commands are run in.
T_p   == <<"/", "p">>
T_pq  == <<"/", "p", " ", "q">>
T_t   == <<"/", "t">>
B_f   == <<"f">>
B_g   == <<"g">>
B_x   == <<"x">>
B_s   == <<"s">>
B_ab  == <<"a", "/", "b">>
B_b   == <<"b">>

Dir(parent, name) == parent \o <<"/">> \o name

Worktree(path, branch) == [path |-> path, branch |-> branch, created |-> FALSE]

MainPaths ==
    { Dir(T_p, <<"r">>), Dir(T_pq, <<"r">>), Dir(T_p, <<"m">>) }

Origins ==
    { None,
      Some(<<"h", "/", "r", ".", "g", "i", "t">>),
      Some(<<"h", "/", "r">>),
      Some(<<"h", "/", "r", "t", ".", "g", "i", "t">>) }

\* The linked worktrees a repository with main worktree `main` may have.
LinkedCandidates(main) ==
    LET parent == PathStr(Parent(Path(main)))
    IN  << Worktree(Dir(parent, <<"r", "-", "f">>), B_f),
           Worktree(Dir(parent, <<"r", "x">>), B_x),
           Worktree(Dir(T_t, <<"r", "-", "g">>), B_g),
           Worktree(Dir(T_t, <<"s">>), B_s),
           Worktree(Dir(parent, <<"r", "-", "a", "/", "b">>), B_ab) >>

RECURSIVE Pick(_, _)
Pick(cands, S) ==
    IF cands = <<>> THEN <<>>
    ELSE Pick(SubSeq(cands, 1, Len(cands) - 1), S)
            \o (IF Len(cands) \in S THEN <<Last(cands)>> ELSE <<>>)

WorktreeLists(main) ==
    { <<Worktree(main, S_master)>> \o Pick(LinkedCandidates(main), S) :
         S \in {T \in SUBSET (1..Len(LinkedCandidates(main))) :
                   Cardinality(T) <= MaxLinked} }

WtWorlds ==
    { [DefaultWorld EXCEPT !.is_repo = r, !.origin = o, !.cwd = Path(m),
                           !.worktrees = wts,
                           !.branches = {wts[i].branch : i \in 1..Len(wts)}] :
         r \in BOOLEAN, o \in Origins, m \in MainPaths,
         wts \in UNION {WorktreeLists(mm) : mm \in MainPaths} }

InitWtWorld(w) ==
    /\ w \in WtWorlds
    /\ Path(w.worktrees[1].path) = w.cwd

(***************************************************************************)
(* wt_create(branch, new_branch, shell)                                    *)
(***************************************************************************)
wt_create_repo_name ==
    /\ pc = "wt_create_repo_name"
    /\ \E r \in OriginResults(world) :
        /\ trace' = Issued("git remote get-url origin", <<>>, r.rc, <<r.stdout>>)
        /\ loc' = [loc EXCEPT
                     !.repo_name = get_repo_name(r.rc, r.stdout, world.cwd)]
        /\ Goto("wt_create_main_worktree")
    /\ UNCHANGED <<cmd, arg, world, output>>

\* The existing directory is not noticed.
wt_create_overwrites(exists) == FALSE

\* `if worktree_path.exists():`
wt_create_refuses(exists) == exists

wt_create_main_worktree ==
    /\ pc = "wt_create_main_worktree"
    /\ \E r \in PorcelainResults(world) :
        LET main_worktree == get_main_worktree(r.rc, r.stdout, world.cwd)
            worktree_path == Join(Parent(main_worktree),
                                  loc.repo_name \o <<"-">> \o arg.branch)
        IN  /\ trace' = Issued("git worktree list --porcelain", <<>>,
                               r.rc, r.stdout)
            /\ loc' = [loc EXCEPT !.main_worktree = Some(main_worktree),
                                  !.worktree_path = Some(worktree_path)]
            /\ IF wt_create_refuses(Exists(world, worktree_path))
               THEN Exit(1)
               ELSE Goto("wt_create_add")
    /\ UNCHANGED <<cmd, arg, world, output>>

\* git worktree add, then the .envrc link and the closing message.
\* Path.symlink_to raises FileExistsError, which ends the process with
\* exit code 1, when the new worktree already has a .envrc.
wt_create_add ==
    /\ pc = "wt_create_add"
    /\ \E rc \in RetCodes :
        LET main_worktree  == loc.main_worktree[1]
            worktree_path  == loc.worktree_path[1]
            main_envrc     == Join(main_worktree, T_envrc)
            worktree_envrc == Join(worktree_path, T_envrc)
            relative_envrc == Join(Join(Path(<<".", ".">>), loc.repo_name),
                                   T_envrc)
            added == [path |-> PathStr(worktree_path), branch |-> arg.branch,
                      created |-> TRUE]
        IN  /\ trace' = Issued("git worktree add",
                               <<PathStr(worktree_path)>>
                                  \o (IF arg.new_branch THEN << <<"-", "b">> >>
                                                        ELSE <<>>)
                                  \o <<arg.branch>>,
                               rc, <<>>)
            /\ IF Failed(rc)
               THEN Exit(1) /\ UNCHANGED <<world, output>>
               ELSE IF main_envrc \in world.files
               THEN IF world.tracked
                    THEN /\ world' = [world EXCEPT
                              !.worktrees = Append(@, added),
                              !.branches = @ \cup {arg.branch},
                              !.files = @ \cup {worktree_envrc}]
                         /\ Exit(1)
                         /\ UNCHANGED output
                    ELSE /\ world' = [world EXCEPT
                              !.worktrees = Append(@, added),
                              !.branches = @ \cup {arg.branch},
                              !.symlinks = @ \cup {[at |-> worktree_envrc,
                                                    to |-> relative_envrc]}]
                         /\ output' = <<PathStr(worktree_path)>>
                         /\ Exit(0)
               ELSE /\ world' = [world EXCEPT
                         !.worktrees = Append(@, added),
                         !.branches = @ \cup {arg.branch}]
                    /\ output' = <<PathStr(worktree_path)>>
                    /\ Exit(0)
    /\ UNCHANGED <<cmd, arg, loc>>

wt_create ==
    \/ wt_create_repo_name
    \/ wt_create_main_worktree
    \/ wt_create_add

InitWtCreate ==
    /\ cmd = "wt_create"
    /\ \E b \in {B_f, B_ab}, n, sh \in BOOLEAN :
          arg = [DefaultArg EXCEPT !.branch = b, !.new_branch = n, !.shell = sh]
    /\ \E w \in WtWorlds, taken, envrc, tracked \in BOOLEAN :
          /\ InitWtWorld(w)
          /\ tracked => envrc
          /\ world = [w EXCEPT
                !.dirs = IF taken
                         THEN {Join(Parent(w.cwd), <<"r", "-", "f">>)}
                         ELSE {},
                !.files = IF envrc THEN {Join(w.cwd, T_envrc)} ELSE {},
                !.tracked = tracked]

(***************************************************************************)
(* wt_delete(branch, force, keep_branch)                                   *)
(***************************************************************************)
\* The loop of find_worktree_by_branch over the porcelain lines.
RECURSIVE find_in_lines(_, _, _)
find_in_lines(lines, current_worktree, branch) ==
    IF lines = <<>> THEN None
    ELSE LET line == Head(lines)
         IN  IF StartsWith(line, T_worktree)
             THEN find_in_lines(Tail(lines),
                                Some(Path(AfterFirst(line, " "))), branch)
             ELSE IF StartsWith(line, T_branch) /\ current_worktree # None
                     /\ Last(Split(line, "/")) = branch
             THEN current_worktree
             ELSE find_in_lines(Tail(lines), current_worktree, branch)

find_worktree_by_branch(exit_code, stdout, branch) ==
    IF exit_code # 0 THEN None
    ELSE find_in_lines(stdout, None, branch)

wt_delete_find ==
    /\ pc = "wt_delete_find"
    /\ \E r \in PorcelainResults(world) :
        LET worktree_path == find_worktree_by_branch(r.rc, r.stdout, arg.branch)
        IN  /\ trace' = Issued("git worktree list --porcelain", <<>>,
                               r.rc, r.stdout)
            /\ loc' = [loc EXCEPT !.worktree_path = worktree_path]
            /\ IF worktree_path = None
               THEN Exit(1)
               ELSE Goto("wt_delete_remove")
    /\ UNCHANGED <<cmd, arg, world, output>>

\* The branch is deleted whatever --keep-branch says.
wt_delete_always_deletes(keep_branch) == TRUE

\* `if not keep_branch:`
wt_delete_deletes_branch(keep_branch) == ~keep_branch

wt_delete_remove ==
    /\ pc = "wt_delete_remove"
    /\ \E rc \in RetCodes :
        LET path == PathStr(loc.worktree_path[1])
        IN  /\ path = world.worktrees[1].path => rc # 0
            /\ trace' = Issued("git worktree remove",
                               <<path>> \o (IF arg.force
                                            THEN << <<"-", "-", "f">> >>
                                            ELSE <<>>),
                               rc, <<>>)
            /\ IF Failed(rc)
               THEN Exit(1) /\ UNCHANGED world
               ELSE /\ world' = [world EXCEPT
                          !.worktrees = SelectSeq(@, LAMBDA w : w.path # path),
                          !.removed = @ \cup
                             {world.worktrees[i] : i \in
                                {k \in 1..Len(world.worktrees) :
                                    world.worktrees[k].path = path}}]
                    /\ IF wt_delete_deletes_branch(arg.keep_branch)
                       THEN Goto("wt_delete_branch_D")
                       ELSE Exit(0)
    /\ UNCHANGED <<cmd, arg, loc, output>>

\* A failure to delete the branch is only a warning.
wt_delete_branch_D ==
    /\ pc = "wt_delete_branch_D"
    /\ \E rc \in RetCodes :
        /\ trace' = Issued("git branch -D", <<arg.branch>>, rc, <<>>)
        /\ world' = IF Failed(rc) THEN world
                    ELSE [world EXCEPT !.branches = @ \ {arg.branch}]
        /\ Exit(0)
    /\ UNCHANGED <<cmd, arg, loc, output>>

wt_delete ==
    \/ wt_delete_find
    \/ wt_delete_remove
    \/ wt_delete_branch_D

InitWtDelete ==
    /\ cmd = "wt_delete"
    /\ \E b \in {B_f, B_s, B_ab, B_b}, f, k \in BOOLEAN :
          arg = [DefaultArg EXCEPT !.branch = b, !.force = f, !.keep_branch = k]
    /\ \E w \in WtWorlds : InitWtWorld(w) /\ world = w

(***************************************************************************)
(* wt_list(all_worktrees)                                                  *)
(***************************************************************************)
wt_list_list ==
    /\ pc = "wt_list_list"
    /\ \E rc \in RetCodes :
        LET stdout == IF rc = 0 THEN ListLines(world.worktrees) ELSE <<>>
        IN  /\ trace' = Issued("git worktree list", <<>>, rc, stdout)
            /\ loc' = [loc EXCEPT !.stdout = stdout]
            /\ IF Failed(rc)
               THEN Exit(1) /\ UNCHANGED output
               ELSE IF stdout = <<>>
               THEN Exit(0) /\ UNCHANGED output
               ELSE IF arg.all_worktrees
               THEN output' = stdout /\ Exit(0)
               ELSE Goto("wt_list_repo_name") /\ UNCHANGED output
    /\ UNCHANGED <<cmd, arg, world>>

wt_list_repo_name ==
    /\ pc = "wt_list_repo_name"
    /\ \E r \in OriginResults(world) :
        /\ trace' = Issued("git remote get-url origin", <<>>, r.rc, <<r.stdout>>)
        /\ loc' = [loc EXCEPT
                     !.repo_name = get_repo_name(r.rc, r.stdout, world.cwd)]
        /\ Goto("wt_list_main_worktree")
    /\ UNCHANGED <<cmd, arg, world, output>>

\* `is_main or is_ghg_managed` for one line of the listing
wt_list_keeps(line, repo_name, main_worktree) ==
    LET worktree_path   == Path(FirstWord(line))
        expected_parent == Parent(main_worktree)
        is_main         == worktree_path = main_worktree
        is_ghg_managed  ==
            /\ Parent(worktree_path) = expected_parent
            /\ StartsWith(Name(worktree_path), repo_name \o <<"-">>)
    IN  is_main \/ is_ghg_managed

wt_list_main_worktree ==
    /\ pc = "wt_list_main_worktree"
    /\ \E r \in PorcelainResults(world) :
        LET main_worktree == get_main_worktree(r.rc, r.stdout, world.cwd)
        IN  /\ trace' = Issued("git worktree list --porcelain", <<>>,
                               r.rc, r.stdout)
            /\ loc' = [loc EXCEPT !.main_worktree = Some(main_worktree)]
            /\ output' = SelectSeq(loc.stdout,
                            LAMBDA line : /\ line # <<>>
                                          /\ wt_list_keeps(line, loc.repo_name,
                                                           main_worktree))
            /\ Exit(0)
    /\ UNCHANGED <<cmd, arg, world>>

wt_list ==
    \/ wt_list_list
    \/ wt_list_repo_name
    \/ wt_list_main_worktree

InitWtList ==
    /\ cmd = "wt_list"
    /\ \E a \in BOOLEAN : arg = [DefaultArg EXCEPT !.all_worktrees = a]
    /\ \E w \in WtWorlds : InitWtWorld(w) /\ world = w

(***************************************************************************)
(* The program: one invocation of one sub-command.                         *)
(***************************************************************************)
Init ==
    /\ pc = "start"
    /\ loc = DefaultLoc
    /\ trace = <<>>
    /\ output = <<>>
    /\ exit = Running
    /\ \/ InitMove
       \/ InitDiff
       \/ InitCherry
       \/ InitBranch
       \/ InitMerge
       \/ InitList
       \/ InitPr
       \/ InitWtCreate
       \/ InitWtDelete
       \/ InitWtList

Next ==
    \/ check_git_repo
    \/ which_gh
    \/ move
    \/ diff
    \/ cherry
    \/ branch_for_each_ref
    \/ merge_pr_edit
    \/ list_pr_list
    \/ pr_default
    \/ wt_create
    \/ wt_delete
    \/ wt_list

Spec == Init /\ [][Next]_vars

(***************************************************************************)
(* wt create followed by wt list: after a wt_create that ended with exit   *)
(* code 0, ghg is invoked again, as `wt list`, in the same directory.      *)
(* The repositories are those whose paths have no whitespace; what the     *)
(* listing does with whitespace is seen under Spec.                        *)
(***************************************************************************)
then_wt_list ==
    /\ cmd = "wt_create" /\ pc = "done" /\ exit = 0
    /\ cmd' = "wt_list"
    /\ \E a \in BOOLEAN : arg' = [DefaultArg EXCEPT !.all_worktrees = a]
    /\ pc' = "start"
    /\ loc' = DefaultLoc
    /\ output' = <<>>
    /\ exit' = Running
    /\ UNCHANGED <<world, trace>>

InitRoundTrip ==
    /\ pc = "start"
    /\ loc = DefaultLoc
    /\ trace = <<>>
    /\ output = <<>>
    /\ exit = Running
    /\ InitWtCreate
    /\ \A i \in 1..Len(world.worktrees) :
          \A j \in 1..Len(world.worktrees[i].path) :
             world.worktrees[i].path[j] \notin SpaceChars

NextRoundTrip ==
    \/ check_git_repo
    \/ wt_create
    \/ then_wt_list
    \/ wt_list

SpecRoundTrip == InitRoundTrip /\ [][NextRoundTrip]_vars

(***************************************************************************)
(* The check summary of list_prs on its own: gh describes one pull request *)
(* with any check list of up to MaxChecks entries.                         *)
(***************************************************************************)
InitChecks ==
    /\ cmd = "list"
    /\ arg = DefaultArg
    /\ pc = "list_pr_list"
    /\ loc = DefaultLoc
    /\ \E pr \in {None} \cup {Some(r) : r \in SeqsUpTo(Checks, MaxChecks)} :
          world = [DefaultWorld EXCEPT !.prs = <<pr>>]
    /\ trace = <<>>
    /\ output = <<>>
    /\ exit = Running

NextChecks == list_pr_list

SpecChecks == InitChecks /\ [][NextChecks]_vars

(***************************************************************************)
(* title_to_branch_name on its own: the function applied to a title, then  *)
(* applied again to its own result.                                        *)
(***************************************************************************)
namer_apply ==
    /\ pc = "namer_start"
    /\ loc' = [loc EXCEPT !.branch_name = title_to_branch_name(arg.title)]
    /\ pc' = "namer_applied"
    /\ UNCHANGED <<cmd, arg, world, trace, output, exit>>

namer_reapply ==
    /\ pc = "namer_applied"
    /\ output' = title_to_branch_name(loc.branch_name)
    /\ pc' = "namer_done"
    /\ UNCHANGED <<cmd, arg, loc, world, trace, exit>>

InitNamer ==
    /\ cmd = "title_to_branch_name"
    /\ \E t \in StrUpTo(TitleChars, MaxTitleLen) :
          arg = [DefaultArg EXCEPT !.title = t]
    /\ pc = "namer_start"
    /\ loc = DefaultLoc
    /\ world = DefaultWorld
    /\ trace = <<>>
    /\ output = <<>>
    /\ exit = Running

NextNamer ==
    \/ namer_apply
    \/ namer_reapply

SpecNamer == InitNamer /\ [][NextNamer]_vars

(***************************************************************************)
(* Properties.                                                             *)
(***************************************************************************)
IsPrefix(a, b) == Len(a) <= Len(b) /\ a = SubSeq(b, 1, Len(a))

\* The external commands issued so far, without their results.
Steps == [i \in 1..Len(trace) |-> <<trace[i].cmd, trace[i].args>>]

Invoked(c) == \E i \in 1..Len(trace) : trace[i].cmd = c

Succeeded(c) == \E i \in 1..Len(trace) : trace[i].cmd = c /\ trace[i].rc = 0

\* C1: in move, when `git status --porcelain` reports no uncommitted
\* changes, neither `git stash push` nor `git stash pop` is invoked; and
\* `git stash pop` is invoked only after a `git stash push` that returned 0.
C1_StashOnlyWithChanges ==
    cmd = "move" =>
        /\ (\E i \in 1..Len(trace) :
                /\ trace[i].cmd = "git status --porcelain"
                /\ trace[i].stdout = <<>>)
           => ~Invoked("git stash push") /\ ~Invoked("git stash pop")
        /\ \A j \in 1..Len(trace) :
              trace[j].cmd = "git stash pop" =>
                 \E i \in 1..(j - 1) :
                    trace[i].cmd = "git stash push" /\ trace[i].rc = 0

\* move ran to its end on a clean working tree, without touching the stash.
C1_Witness ==
    /\ cmd = "move" /\ pc = "done" /\ exit = 0
    /\ trace[1].cmd = "git status --porcelain" /\ trace[1].stdout = <<>>
    /\ Len(trace) = 4

\* C2: cherry invoked with a nonzero --num on a working tree with
\* uncommitted changes exits with code 1 and has issued none of git add,
\* commit, checkout, pull, cherry-pick, push or gh pr create; the repository
\* is as it was found.
ChangingCommands ==
    { "git add -A", "git commit -m", "git checkout", "git checkout -b",
      "git pull origin", "git cherry-pick", "git push -u origin",
      "gh pr create" }

C2_NumWithChangesRejected ==
    ( /\ cmd = "cherry"
      /\ arg.num_commits # None /\ arg.num_commits # Some(0)
      /\ \E i \in 1..Len(trace) :
            trace[i].cmd = "git status --porcelain" /\ trace[i].stdout # <<>> )
    => /\ pc = "done" /\ exit = 1
       /\ \A j \in 1..Len(trace) : trace[j].cmd \notin ChangingCommands
       /\ world.history = DefaultWorld.history
       /\ world.branches = DefaultWorld.branches
       /\ world.current = world.started_on
       /\ world.dirty

C2_Witness ==
    /\ cmd = "cherry" /\ arg.num_commits = Some(2) /\ arg.merge
    /\ Len(trace) = 2
    /\ trace[2].cmd = "git status --porcelain" /\ trace[2].stdout # <<>>
    /\ exit = 1

\* C8: move issues its commands only in the order status, [stash push],
\* checkout master, pull origin master, checkout -b <branch_name>,
\* [stash pop]; a step that returns nonzero ends move with exit code 1 as the
\* last command issued, and a stash created before the failure stays.
MoveWithStash(b) ==
    << <<"git status --porcelain", <<>>>>,
       <<"git stash push", <<b>>>>,
       <<"git checkout", <<S_master>>>>,
       <<"git pull origin", <<S_master>>>>,
       <<"git checkout -b", <<b>>>>,
       <<"git stash pop", <<>>>> >>

MoveWithoutStash(b) ==
    << <<"git status --porcelain", <<>>>>,
       <<"git checkout", <<S_master>>>>,
       <<"git pull origin", <<S_master>>>>,
       <<"git checkout -b", <<b>>>> >>

C8_MoveSequence ==
    cmd = "move" =>
        /\ \/ IsPrefix(Steps, MoveWithStash(arg.branch_name))
           \/ IsPrefix(Steps, MoveWithoutStash(arg.branch_name))
        /\ \A i \in 1..Len(trace) :
              trace[i].rc # 0 => i = Len(trace) /\ pc = "done" /\ exit = 1
        /\ exit = 0 => Steps \in { MoveWithStash(arg.branch_name),
                                   MoveWithoutStash(arg.branch_name) }
        /\ (Succeeded("git stash push") /\ ~Succeeded("git stash pop"))
           => world.stash = 1

\* The pull failed after the changes were stashed.
C8_Witness ==
    /\ cmd = "move" /\ exit = 1
    /\ Len(trace) = 4
    /\ trace[2].cmd = "git stash push" /\ trace[2].rc = 0
    /\ trace[4].cmd = "git pull origin" /\ trace[4].rc # 0
    /\ world.stash = 1

\* C9: cherry picks the selected commits one at a time, oldest first (the
\* order `git rev-list --reverse` returned them in); at the first
\* cherry-pick that returns nonzero it exits with code 1, with no further
\* cherry-pick, no push and no gh pr create, and the new branch is kept.
Picks == SelectSeq(trace, LAMBDA e : e.cmd = "git cherry-pick")

C9_CherryPickOrder ==
    cmd = "cherry" =>
        /\ Len(Picks) <= Len(loc.commits_to_pick)
        /\ \A i \in 1..Len(Picks) : Picks[i].args = <<loc.commits_to_pick[i]>>
        /\ \A i \in 1..Len(trace) :
              (trace[i].cmd = "git rev-list --reverse" /\ trace[i].rc = 0)
              => loc.commits_to_pick = trace[i].stdout
        /\ \A i \in 1..Len(trace) :
              (trace[i].cmd = "git cherry-pick" /\ trace[i].rc # 0)
              => /\ i = Len(trace) /\ pc = "done" /\ exit = 1
                 /\ ~Invoked("git push -u origin") /\ ~Invoked("gh pr create")
                 /\ ~Invoked("git branch -D")
                 /\ loc.branch_name \in world.branches
        /\ Invoked("git push -u origin")
           => /\ Len(Picks) = Len(loc.commits_to_pick)
              /\ world.picked = loc.commits_to_pick

\* The second of two commits failed to apply.
C9_Witness ==
    /\ cmd = "cherry" /\ exit = 1
    /\ Len(Picks) = 2
    /\ Picks[1].args = <<S_c2>> /\ Picks[1].rc = 0
    /\ Picks[2].args = <<S_c3>> /\ Picks[2].rc # 0
    /\ trace[Len(trace)].cmd = "git cherry-pick"

\* C6: title_to_branch_name returns a value for every title, applying it to
\* its own result changes nothing, and the result has no uppercase letter,
\* whitespace, underscore, symbol, doubled hyphen or leading or trailing
\* hyphen, and is empty for an empty or symbol-only title.
BranchNameShape(b) ==
    /\ \A i \in 1..Len(b) : b[i] \in LowerChars \cup DigitChars \cup {"-"}
    /\ \A i \in 1..(Len(b) - 1) : ~(b[i] = "-" /\ b[i + 1] = "-")
    /\ b # <<>> => b[1] # "-" /\ b[Len(b)] # "-"

C6_BranchNameIdempotent ==
    /\ pc \in {"namer_applied", "namer_done"} =>
          /\ BranchNameShape(loc.branch_name)
          /\ (\A i \in 1..Len(arg.title) : arg.title[i] \in SymbolChars)
             => loc.branch_name = <<>>
    /\ pc = "namer_done" => output = loc.branch_name

C6_Witness ==
    /\ pc = "namer_done"
    /\ arg.title = <<"A", "_", "-", "a">>
    /\ loc.branch_name = <<"a", "-", "a">>
    /\ output = <<"a", "-", "a">>

\* C3: the check summary of a pull request. With total the number of
\* entries and the tallies taken over the entries (a CheckRun by its
\* conclusion, or as pending by status IN_PROGRESS when the conclusion is
\* none of the three; a StatusContext by its state): no entries, or no list,
\* gives "No checks"; else failure > 0 gives "{failure}/{total} failed";
\* else pending > 0 gives "{pending}/{total} pending"; else success > 0 gives
\* "{success}/{total} passed"; else "{skipped}/{total} skipped".
IsSuccess(c) ==
    \/ c.typename = "CheckRun" /\ Upper(c.conclusion) = "SUCCESS"
    \/ c.typename = "StatusContext" /\ Upper(c.state) = "SUCCESS"

IsFailure(c) ==
    \/ c.typename = "CheckRun" /\ Upper(c.conclusion) = "FAILURE"
    \/ c.typename = "StatusContext" /\ Upper(c.state) = "FAILURE"

IsSkipped(c) == c.typename = "CheckRun" /\ Upper(c.conclusion) = "SKIPPED"

IsPending(c) ==
    \/ /\ c.typename = "CheckRun"
       /\ Upper(c.conclusion) \notin {"SUCCESS", "FAILURE", "SKIPPED"}
       /\ c.status = "IN_PROGRESS"
    \/ c.typename = "StatusContext" /\ Upper(c.state) = "PENDING"

Tally(P(_), r) == Cardinality({i \in 1..Len(r) : P(r[i])})

ExpectedSummary(pr) ==
    IF pr = None \/ pr = Some(<<>>)
    THEN Summary(0, 0, "No checks")
    ELSE LET r     == pr[1]
             total == Len(r)
         IN  IF Tally(IsFailure, r) > 0
             THEN Summary(Tally(IsFailure, r), total, "failed")
             ELSE IF Tally(IsPending, r) > 0
             THEN Summary(Tally(IsPending, r), total, "pending")
             ELSE IF Tally(IsSuccess, r) > 0
             THEN Summary(Tally(IsSuccess, r), total, "passed")
             ELSE Summary(Tally(IsSkipped, r), total, "skipped")

C3_CheckSummary ==
    (cmd = "list" /\ pc = "done" /\ exit = 0 /\ world.gh_stdout = "json")
    => /\ Len(output) = Len(world.prs)
       /\ \A k \in 1..Len(world.prs) :
             output[k] = ExpectedSummary(world.prs[k])

\* [success, failure, pending] is summarised as "1/3 failed".
C3_Witness ==
    /\ cmd = "list" /\ pc = "done" /\ exit = 0
    /\ world.prs = <<Some(<<Check("CheckRun", "SUCCESS", "COMPLETED", ""),
                            Check("CheckRun", "FAILURE", "COMPLETED", ""),
                            Check("StatusContext", "", "", "PENDING")>>)>>
    /\ output = <<Summary(1, 3, "failed")>>

\* C4: when the path wt_create computes, <parent of the main worktree>/
\* {repo_name}-{branch}, already exists, wt_create exits with code 1 and
\* neither invokes `git worktree add` nor creates a symlink.
PreExisting(p) ==
    \/ p \in world.dirs
    \/ \E i \in 1..Len(world.worktrees) :
          ~world.worktrees[i].created /\ Path(world.worktrees[i].path) = p

C4_ExistingPathRefused ==
    ( /\ cmd = "wt_create"
      /\ loc.worktree_path # None
      /\ PreExisting(loc.worktree_path[1]) )
    => /\ pc = "done" /\ exit = 1
       /\ ~Invoked("git worktree add")
       /\ world.symlinks = {}

\* The directory /p/r-f is in the way of `wt create f --shell`.
C4_Witness ==
    /\ cmd = "wt_create" /\ arg.branch = B_f /\ arg.shell
    /\ loc.worktree_path = Some(Path(Dir(T_p, <<"r", "-", "f">>)))
    /\ Path(Dir(T_p, <<"r", "-", "f">>)) \in world.dirs
    /\ Len(trace) = 2 /\ trace[1].rc = 0 /\ trace[2].rc = 0
    /\ exit = 1

\* C5: without --all, wt_list prints exactly the entries of
\* `git worktree list` that are the main worktree or whose directory is a
\* direct sibling of the main worktree with a name starting with
\* "{repo_name}-"; with --all it prints the listing as it is.
IsMainOrManaged(w, repo_name) ==
    LET main == Path(world.worktrees[1].path)
        dir  == Path(w.path)
    IN  \/ dir = main
        \/ /\ Parent(dir) = Parent(main)
           /\ StartsWith(Name(dir), repo_name \o <<"-">>)

C5_WtListFilter ==
    ( /\ cmd = "wt_list" /\ pc = "done"
      /\ Succeeded("git worktree list")
      /\ \A i \in 1..Len(trace) : trace[i].rc = 0 )
    => /\ exit = 0
       /\ output =
             IF arg.all_worktrees
             THEN ListLines(world.worktrees)
             ELSE ListLines(SelectSeq(world.worktrees,
                              LAMBDA w : IsMainOrManaged(w, loc.repo_name)))

\* C7: a command exits 0 on success, 1 on a precondition or validation
\* failure and on the failure of a captured external command; the external
\* tool's own exit code is passed on only when a streaming command fails.
Streaming ==
    { "git diff", "git diff master...HEAD", "gh pr create",
      "gh pr edit --add-label merge" }

C7_ExitCodes ==
    pc = "done" =>
        /\ exit \in {0, 1}
           \/ \E i \in 1..Len(trace) :
                 /\ trace[i].cmd \in Streaming
                 /\ trace[i].rc # 0
                 /\ exit = trace[i].rc
        /\ (\E i \in 1..Len(trace) :
               trace[i].cmd \notin Streaming /\ trace[i].rc # 0)
           => exit = 1
        /\ (\A i \in 1..Len(trace) : trace[i].rc = 0) => exit \in {0, 1}

\* C10: wt_delete invokes `git branch -D` only after `git worktree remove`
\* returned 0 and only when keep_branch is false; when the branch deletion
\* returns nonzero wt_delete still ends with exit code 0; when
\* `git worktree remove` returns nonzero it exits 1 without attempting the
\* branch deletion.
C10_BranchDeletion ==
    cmd = "wt_delete" =>
        /\ \A j \in 1..Len(trace) :
              trace[j].cmd = "git branch -D" =>
                 /\ ~arg.keep_branch
                 /\ trace[j].args = <<arg.branch>>
                 /\ \E i \in 1..(j - 1) :
                       /\ trace[i].cmd = "git worktree remove"
                       /\ trace[i].rc = 0
                 /\ pc = "done" /\ exit = 0
        /\ \A i \in 1..Len(trace) :
              (trace[i].cmd = "git worktree remove" /\ trace[i].rc # 0)
              => /\ pc = "done" /\ exit = 1
                 /\ ~Invoked("git branch -D")
        /\ (Succeeded("git worktree remove") /\ arg.keep_branch /\ pc = "done")
           => exit = 0 /\ ~Invoked("git branch -D")

\* The worktree was removed and the branch deletion failed.
C10_Witness ==
    /\ cmd = "wt_delete" /\ pc = "done" /\ exit = 0
    /\ Len(trace) = 3
    /\ trace[2].cmd = "git worktree remove" /\ trace[2].rc = 0
    /\ trace[3].cmd = "git branch -D" /\ trace[3].rc # 0
    /\ arg.branch \in world.branches

\* C11: wt_delete(b) removes the worktree that has branch b checked out,
\* and only that one, also when b contains "/"; when no worktree has b
\* checked out it exits with code 1 without invoking `git worktree remove`
\* or `git branch -D`.
AllWorktrees ==
    {world.worktrees[i] : i \in 1..Len(world.worktrees)} \cup world.removed

HasBranch(b) == \E w \in AllWorktrees : w.branch = b

C11_DeleteByBranch ==
    cmd = "wt_delete" =>
        /\ \A j \in 1..Len(trace) :
              trace[j].cmd = "git worktree remove" =>
                 \E w \in AllWorktrees :
                    w.branch = arg.branch /\ trace[j].args[1] = w.path
        /\ \A w \in world.removed : w.branch = arg.branch
        /\ (pc = "done" /\ ~HasBranch(arg.branch))
           => /\ exit = 1
              /\ ~Invoked("git worktree remove")
              /\ ~Invoked("git branch -D")
        /\ ( /\ pc = "done" /\ HasBranch(arg.branch)
             /\ Succeeded("git worktree list --porcelain") )
           => Invoked("git worktree remove")

\* C12: after a successful `git worktree add`, wt_create has created the
\* symlink .envrc in the new worktree if and only if the main worktree has a
\* root-level .envrc, and the link's relative target, resolved from the new
\* worktree's directory, is the main worktree's .envrc.
RECURSIVE ResolveParts(_, _)
ResolveParts(base, rel) ==
    IF rel = <<>> THEN base
    ELSE IF Head(rel) = <<".", ".">>
    THEN ResolveParts(IF base = <<>> THEN base
                      ELSE SubSeq(base, 1, Len(base) - 1), Tail(rel))
    ELSE ResolveParts(Append(base, Head(rel)), Tail(rel))

\* Where a relative link target leads from the directory dir.
Resolve(dir, target) ==
    IF target.anchor = "/" THEN target
    ELSE [dir EXCEPT !.parts = ResolveParts(@, target.parts)]

CreatedWorktrees ==
    {world.worktrees[i] : i \in {k \in 1..Len(world.worktrees) :
                                    world.worktrees[k].created}}

C12_EnvrcLink ==
    (cmd = "wt_create" /\ Succeeded("git worktree add"))
    => LET main_envrc == Join(Path(world.worktrees[1].path), T_envrc)
       IN  \A w \in CreatedWorktrees :
              LET link == Join(Path(w.path), T_envrc)
              IN  /\ (\E l \in world.symlinks : l.at = link)
                     <=> main_envrc \in world.files
                  /\ \A l \in world.symlinks :
                        /\ l.at = link
                        /\ Resolve(Parent(l.at), l.to) = main_envrc

\* C13: when cherry ends with exit code 0 its commands from the switch to
\* master on were, in order: checkout master, pull origin master,
\* checkout -b title_to_branch_name(title), the cherry-picks, push -u origin
\* of the new branch, gh pr create with the title, the body (the title when
\* none is given) and the merge label exactly when the merge flag is set,
\* and last `git checkout` of the branch that was current when cherry
\* started; when a step from checkout master on fails, the checkout back is
\* not performed.
FirstCheckout ==
    IF Invoked("git checkout")
    THEN CHOOSE i \in 1..Len(trace) :
            /\ trace[i].cmd = "git checkout"
            /\ \A j \in 1..(i - 1) : trace[j].cmd # "git checkout"
    ELSE 0

CherrySequence ==
    LET new_branch == title_to_branch_name(arg.title)
        the_body   == IF arg.body = None THEN arg.title ELSE arg.body[1]
    IN  << <<"git checkout", <<S_master>>>>,
           <<"git pull origin", <<S_master>>>>,
           <<"git checkout -b", <<new_branch>>>> >>
        \o [i \in 1..Len(loc.commits_to_pick) |->
               <<"git cherry-pick", <<loc.commits_to_pick[i]>>>>]
        \o << <<"git push -u origin", <<new_branch>>>>,
              <<"gh pr create",
                IF arg.merge THEN <<arg.title, the_body, S_merge>>
                             ELSE <<arg.title, the_body>>>>,
              <<"git checkout", <<world.started_on>>>> >>

C13_CherrySequence ==
    cmd = "cherry" =>
        LET k    == FirstCheckout
            done == SubSeq(Steps, k, Len(trace))
        IN  /\ k > 0 => IsPrefix(done, CherrySequence)
            /\ exit = 0 =>
                  /\ k > 0
                  /\ done = CherrySequence
                  /\ \A i \in 1..Len(trace) : trace[i].rc = 0
                  /\ world.current = world.started_on
            /\ \A i \in 1..Len(trace) :
                  (k > 0 /\ i >= k /\ trace[i].rc # 0
                         /\ i - k + 1 < Len(CherrySequence))
                  => /\ Len(done) < Len(CherrySequence)
                     /\ exit # 0

\* Two commits were carried over and the pull request has a body and no
\* label.
C13_Witness ==
    /\ cmd = "cherry" /\ pc = "done" /\ exit = 0
    /\ arg.num_commits = Some(2) /\ ~arg.merge /\ arg.body = Some(S_body)
    /\ world.started_on = S_master
    /\ Len(Picks) = 2
    /\ trace[Len(trace)].cmd = "git checkout"
    /\ trace[Len(trace)].args = <<S_master>>

\* C14: a worktree created by a successful wt_create(b), for any branch
\* name b, is printed by a following wt_list in default mode, the origin URL
\* being the same for both.
C14_CreatedIsListed ==
    ( /\ cmd = "wt_list" /\ pc = "done" /\ ~arg.all_worktrees
      /\ Succeeded("git worktree add")
      /\ \A i \in 1..Len(trace) : trace[i].rc = 0 )
    => \A i \in 1..Len(world.worktrees) :
          world.worktrees[i].created
          => \E k \in 1..Len(output) :
                output[k] = ListLines(world.worktrees)[i]

====
